---- MODULE Spec2Model ----
(***************************************************************************)
(* Model of the Telegram message-acquisition subsystem:                    *)
(*   src/src/infrastructure/telegram/client.py  (get_updates, parsing)     *)
(*   src/src/infrastructure/telegram/module.py  (poll_once, listen_forever)*)
(* The long-polling loop is a state machine whose steps are the calls that *)
(* leave listen_forever (the fetch, time.sleep, the handler).  The Bot API *)
(* provider is the environment: it retains updates with increasing ids and *)
(* answers a fetch with the retained updates whose id is >= the offset.    *)
(***************************************************************************)
EXTENDS Integers, Sequences, FiniteSets, TLC

\* ---------------------------------------------------------------- bounds
\* Update ids the provider assigns: FirstUpdateId..MaxUpdateId.
FirstUpdateId == 10
MaxUpdateId == 12
\* Floors and ceilings the module is constructed with (seconds).
MaxFloor == 2
MaxCeiling == 2
\* Number of sleeps of a failure streak that the observation keeps.
MaxStreak == 4

\* Defaults of TelegramBotModule.__init__.
DefaultFloor == 1
DefaultCeiling == 30

\* ------------------------------------------------------- optional values
\* Python's None / a present value.
None == <<>>
Some(x) == <<x>>
IsNone(o) == o = <<>>
Val(o) == o[1]

\* ------------------------------------------------------------ JSON values
\* A decoded JSON value carries its Python type; a dict is a record.
Null == [t |-> "null"]
JInt(n) == [t |-> "int", v |-> n]
JStr(s) == [t |-> "str", v |-> s]
JBool(b) == [t |-> "bool", v |-> b]
JList(s) == [t |-> "list", v |-> s]
JDict(d) == [t |-> "dict", v |-> d]

\* dict.get(key): the value, or None when the key is absent.
Get(d, k) == IF k \in DOMAIN d THEN d[k] ELSE Null

\* The _require_* / _optional_* validators: TRUE when they return, FALSE
\* when they raise TelegramApiError.  bool is a distinct tag, as the
\* validators reject it explicitly for integers.
require_dict_ok(x) == x.t = "dict"
optional_dict_ok(x) == x.t \in {"null", "dict"}
require_list_ok(x) == x.t = "list"
optional_list_ok(x) == x.t \in {"null", "list"}
\* Variant: isinstance(value, int) alone, which a Python bool satisfies.
require_int_accepts_bool(x) == x.t \in {"int", "bool"}

require_int_ok(x) == x.t = "int"
optional_int_ok(x) == x.t \in {"null", "int"}
require_str_ok(x) == x.t = "str"
optional_str_ok(x) == x.t \in {"null", "str"}
require_bool_ok(x) == x.t = "bool"

\* The value an _optional_* validator returns.
optional_value(x) == IF x.t = "null" THEN None ELSE Some(x.v)

\* --------------------------------------------------------------- parsing
\* _parse_photo
parse_photo_ok(p) ==
    /\ require_dict_ok(p)
    /\ require_str_ok(Get(p.v, "file_id"))
    /\ require_str_ok(Get(p.v, "file_unique_id"))
    /\ require_int_ok(Get(p.v, "width"))
    /\ require_int_ok(Get(p.v, "height"))
    /\ optional_int_ok(Get(p.v, "file_size"))

parse_photo(p) ==
    [file_id |-> Get(p.v, "file_id").v,
     file_unique_id |-> Get(p.v, "file_unique_id").v,
     width |-> Get(p.v, "width").v,
     height |-> Get(p.v, "height").v,
     file_size |-> optional_value(Get(p.v, "file_size"))]

\* _parse_document
parse_document_ok(d) ==
    /\ require_dict_ok(d)
    /\ require_str_ok(Get(d.v, "file_id"))
    /\ require_str_ok(Get(d.v, "file_unique_id"))
    /\ optional_str_ok(Get(d.v, "file_name"))
    /\ optional_str_ok(Get(d.v, "mime_type"))
    /\ optional_int_ok(Get(d.v, "file_size"))

parse_document(d) ==
    [file_id |-> Get(d.v, "file_id").v,
     file_unique_id |-> Get(d.v, "file_unique_id").v,
     file_name |-> optional_value(Get(d.v, "file_name")),
     mime_type |-> optional_value(Get(d.v, "mime_type")),
     file_size |-> optional_value(Get(d.v, "file_size"))]

\* `raw_photos = _optional_list(message_map.get("photo")) or []`
raw_photos(m) == IF Get(m, "photo").t = "list" THEN Get(m, "photo").v ELSE <<>>

\* _parse_message returns (TRUE) or raises TelegramApiError (FALSE).
parse_message_ok(u, m) ==
    /\ require_dict_ok(Get(m, "chat"))
    /\ optional_dict_ok(Get(m, "from"))
    /\ optional_list_ok(Get(m, "photo"))
    /\ \A i \in 1..Len(raw_photos(m)) : parse_photo_ok(raw_photos(m)[i])
    /\ Get(m, "document").t # "null" => parse_document_ok(Get(m, "document"))
    /\ require_int_ok(Get(u, "update_id"))
    /\ require_int_ok(Get(m, "message_id"))
    /\ require_int_ok(Get(Get(m, "chat").v, "id"))
    /\ (Get(m, "from").t = "dict" /\ DOMAIN Get(m, "from").v # {})
          => optional_int_ok(Get(Get(m, "from").v, "id"))
    /\ optional_str_ok(Get(m, "text"))
    /\ optional_str_ok(Get(m, "caption"))
    /\ require_int_ok(Get(m, "date"))

\* The TelegramMessage _parse_message builds.
parse_message(u, m) ==
    [update_id |-> Get(u, "update_id").v,
     message_id |-> Get(m, "message_id").v,
     chat_id |-> Get(Get(m, "chat").v, "id").v,
     from_user_id |->
        IF Get(m, "from").t = "dict" /\ DOMAIN Get(m, "from").v # {}
        THEN optional_value(Get(Get(m, "from").v, "id")) ELSE None,
     text |-> optional_value(Get(m, "text")),
     caption |-> optional_value(Get(m, "caption")),
     photos |-> [i \in 1..Len(raw_photos(m)) |-> parse_photo(raw_photos(m)[i])],
     document |->
        IF Get(m, "document").t = "null" THEN None
        ELSE Some(parse_document(Get(m, "document"))),
     date_unix |-> Get(m, "date").v]

\* Variant: a message that is not an object is skipped like a missing one.
update_outcome_skips_non_object(raw) ==
    IF ~require_dict_ok(raw) THEN "error"
    ELSE IF ~require_dict_ok(Get(raw.v, "message")) THEN "skip"
    ELSE IF parse_message_ok(raw.v, Get(raw.v, "message").v) THEN "message"
    ELSE "error"

\* What the body of get_updates' for loop does with one raw update:
\* "skip" (no message), "message" (appended) or "error" (raises).
update_outcome(raw) ==
    IF ~require_dict_ok(raw) THEN "error"
    ELSE IF Get(raw.v, "message").t = "null" THEN "skip"
    ELSE IF ~require_dict_ok(Get(raw.v, "message")) THEN "error"
    ELSE IF parse_message_ok(raw.v, Get(raw.v, "message").v) THEN "message"
    ELSE "error"

\* Variant: the for loop ends at the first update without a message.
RECURSIVE parsed_messages_stops_at_skipped(_)
parsed_messages_stops_at_skipped(raws) ==
    IF raws = <<>> THEN <<>>
    ELSE IF update_outcome(Head(raws)) = "message"
         THEN <<parse_message(Head(raws).v, Get(Head(raws).v, "message").v)>>
                 \o parsed_messages_stops_at_skipped(Tail(raws))
         ELSE <<>>

\* The messages of a batch, in batch order, skipping updates without one.
RECURSIVE parsed_messages(_)
parsed_messages(raws) ==
    IF raws = <<>> THEN <<>>
    ELSE IF update_outcome(Head(raws)) = "message"
         THEN <<parse_message(Head(raws).v, Get(Head(raws).v, "message").v)>>
                 \o parsed_messages(Tail(raws))
         ELSE parsed_messages(Tail(raws))

\* get_updates on a decoded result list: raises if any update raises.
get_updates_raises(raws) ==
    \E i \in 1..Len(raws) : update_outcome(raws[i]) = "error"

\* ------------------------------------------------------------ the provider
\* Kinds of update the provider delivers: "edited" carries no message
\* field, "text" and "document" are well-formed messages, "nochat" is a
\* message-bearing update whose message lacks the chat object.
UpdateKinds == {"edited", "text", "document", "nochat"}

raw_update(id, kind) ==
    CASE kind = "edited" ->
           JDict([update_id |-> JInt(id),
                  edited_message |-> JDict([message_id |-> JInt(id)])])
      [] kind = "text" ->
           JDict([update_id |-> JInt(id),
                  message |-> JDict([message_id |-> JInt(id),
                                     chat |-> JDict([id |-> JInt(1)]),
                                     from |-> JDict([id |-> JInt(2)]),
                                     date |-> JInt(id),
                                     text |-> JStr("hi")])])
      [] kind = "document" ->
           JDict([update_id |-> JInt(id),
                  message |-> JDict([message_id |-> JInt(id),
                                     chat |-> JDict([id |-> JInt(1)]),
                                     date |-> JInt(id),
                                     document |->
                                        JDict([file_id |-> JStr("f1"),
                                               file_unique_id |-> JStr("u1")])])])
      [] kind = "nochat" ->
           JDict([update_id |-> JInt(id),
                  message |-> JDict([message_id |-> JInt(id),
                                     date |-> JInt(id),
                                     text |-> JStr("hi")])])

\* The update id of a raw update of the provider.
raw_id(raw) == raw.v.update_id.v

\* getUpdates with an offset: the provider forgets the updates below the
\* offset and answers with the retained ones (ids >= offset), in id order;
\* without an offset it answers with everything it retains.
RECURSIVE provider_retained(_, _)
provider_retained(retained, offset) ==
    IF retained = <<>> \/ IsNone(offset) THEN retained
    ELSE IF raw_id(Head(retained)) >= Val(offset) THEN retained
    ELSE provider_retained(Tail(retained), offset)

\* --------------------------------------------------------------- helpers
Min(a, b) == IF a <= b THEN a ELSE b
Max(a, b) == IF a >= b THEN a ELSE b

RECURSIVE MaxOf(_)
MaxOf(s) == IF Len(s) = 1 THEN s[1] ELSE Max(s[1], MaxOf(Tail(s)))

RECURSIVE Pow2(_)
Pow2(n) == IF n = 0 THEN 1 ELSE 2 * Pow2(n - 1)

update_ids(messages) == [i \in 1..Len(messages) |-> messages[i].update_id]
raw_ids(raws) == [i \in 1..Len(raws) |-> raw_id(raws[i])]

\* ------------------------------------------------------------------ state
VARIABLES
    error_retry_sleep_seconds,  \* self._error_retry_sleep_seconds (floor)
    max_retry_sleep_seconds,    \* self._max_retry_sleep_seconds (ceiling)
    next_update_id,             \* self._next_update_id: None or Some(int)
    retry_sleep_seconds,        \* listen_forever's local backoff delay
    pc,                         \* where listen_forever is
    pending,                    \* messages the for loop has not dispatched yet
    backlog,                    \* provider: retained raw updates, by id
    last_id,                    \* provider: last update id assigned
    last_fetch,                 \* observation: the last fetch and its outcome
    retry_sleeping,             \* argument of the retry time.sleep in progress
    sleeps,                     \* observation: retry sleeps of the failure streak
    handled,                    \* observation: update ids passed to the handler
    handler_raised,             \* observation: ids whose handler call raised
    last_dispatched,            \* observation: the last id ever passed to the handler
    stop_requested              \* environment: the caller wants the loop to stop

\* The other parts of the repository, each observed through one record:
\* they run as their own processes or calls and share nothing with the loop.
VARIABLES
    webhook,                    \* the FastAPI webhook endpoint and its runtime
    parse_case,                 \* one raw update taken through both parsers
    client_call,                \* one call of TelegramApiClient and the disk
    built                       \* one construction of TelegramBotModule

other_parts == <<webhook, parse_case, client_call, built>>

vars == <<error_retry_sleep_seconds, max_retry_sleep_seconds, next_update_id,
          retry_sleep_seconds, pc, pending, backlog, last_id, last_fetch,
          retry_sleeping, sleeps, handled, handler_raised, last_dispatched,
          stop_requested, webhook, parse_case, client_call, built>>

\* The records of the parts that are not running.
NoWebhook == [running |-> FALSE]
NoParseCase == [running |-> FALSE]
NoClientCall == [running |-> FALSE]
NotBuilt == [running |-> FALSE]

\* What no step of listen_forever assigns: the configuration, and the
\* caller's stop request, which the loop has no parameter or flag to read.
config == <<error_retry_sleep_seconds, max_retry_sleep_seconds, stop_requested>>

Floors == (1..MaxFloor) \cup {DefaultFloor}
Ceilings == (1..MaxCeiling) \cup {DefaultCeiling}

\* TelegramBotModule.__init__ followed by the entry of listen_forever.
Init ==
    /\ error_retry_sleep_seconds \in Floors
    /\ max_retry_sleep_seconds \in Ceilings
    /\ next_update_id = None
    /\ retry_sleep_seconds = error_retry_sleep_seconds
    /\ pc = "poll"
    /\ pending = <<>>
    /\ backlog = <<>>
    /\ last_id = FirstUpdateId - 1
    /\ last_fetch = [outcome |-> "none", offset |-> None, batch |-> <<>>,
                     delay |-> error_retry_sleep_seconds]
    /\ retry_sleeping = None
    /\ sleeps = <<>>
    /\ handled = <<>>
    /\ handler_raised = {}
    /\ last_dispatched = None
    /\ stop_requested = FALSE
    /\ webhook = NoWebhook
    /\ parse_case = NoParseCase
    /\ client_call = NoClientCall
    /\ built = NotBuilt

\* A new update reaches the provider; ids are strictly increasing, gaps
\* are possible.
Arrive ==
    \E id \in (last_id + 1)..MaxUpdateId, kind \in UpdateKinds :
        /\ backlog' = Append(backlog, raw_update(id, kind))
        /\ last_id' = id
        /\ UNCHANGED <<config, other_parts, next_update_id, retry_sleep_seconds, pc, pending,
                       last_fetch, retry_sleeping, sleeps, handled,
                       handler_raised, last_dispatched>>

\* ------------------------------------------------------------ poll_once
\* Variant: the cursor is assigned on the empty path too, and lost there.
poll_once_cursor_reset_on_empty(cursor, messages) ==
    IF messages = <<>> THEN None
    ELSE Some(MaxOf(update_ids(messages)) + 1)

\* Variant: the cursor is the highest update id, without the + 1.
poll_once_cursor_without_increment(cursor, messages) ==
    IF messages = <<>> THEN cursor
    ELSE Some(MaxOf(update_ids(messages)))

\* poll_once: the cursor after get_updates returned `messages`.
poll_once_cursor(cursor, messages) ==
    IF messages = <<>> THEN cursor
    ELSE Some(MaxOf(update_ids(messages)) + 1)

\* Variant: only the first message of the batch is handed over.
poll_once_result_first_only(messages) ==
    IF messages = <<>> THEN <<>> ELSE <<Head(messages)>>

\* Variant: the batch is handed over newest first.
poll_once_result_reversed(messages) ==
    [i \in 1..Len(messages) |-> messages[Len(messages) + 1 - i]]

\* poll_once: the list it returns to listen_forever.
poll_once_result(messages) == messages

\* ------------------------------------------------------- listen_forever
\* Variant: TelegramApiError leaves listen_forever.
api_error_propagates == "raised"

\* Where control goes when poll_once raised TelegramApiError.
api_error_target == "retry_sleep"

\* Variant: only TelegramApiError is caught, anything else leaves the loop.
unexpected_error_propagates == "raised"

\* Where control goes when poll_once raised another Exception.
unexpected_error_target == "retry_sleep"

\* Variant: the delay is doubled before it is slept.
error_sleep_arg_doubled(retry) == retry * 2

\* The argument of time.sleep in the two except branches.
error_sleep_arg(retry) == retry

\* The delay after a failed cycle's sleep.
next_retry_sleep(retry, ceiling) == Min(retry * 2, ceiling)

\* Variant: a successful cycle keeps the delay of the failure streak.
reset_retry_sleep_keeps_delay(retry, floor) == retry

\* The delay after poll_once returned.
reset_retry_sleep(retry, floor) == floor

\* Variant: a handler error abandons the rest of the batch.
after_handler_error_aborts(messages) == <<>>

\* The messages still to dispatch after the handler raised for the first.
after_handler_error(messages) == Tail(messages)

record_sleep(d) == IF Len(sleeps) < MaxStreak THEN Append(sleeps, d) ELSE sleeps

\* Outcome of the fetch: what _post_json did, then get_updates' parsing.
fetch_outcome(resp, batch) ==
    CASE resp = "api_error" -> "api_error"
      [] resp = "unexpected" -> "unexpected"
      [] resp = "ok" /\ get_updates_raises(batch) -> "parse_error"
      [] OTHER -> "ok"

\* One call of poll_once from listen_forever, up to the next call that
\* leaves the loop (time.sleep or the handler).
Poll ==
    /\ pc = "poll"
    /\ \E resp \in {"ok", "api_error", "unexpected"} :
        LET batch == IF resp = "ok"
                     THEN provider_retained(backlog, next_update_id) ELSE <<>>
            outcome == fetch_outcome(resp, batch)
            messages == IF outcome = "ok"
                        THEN poll_once_result(parsed_messages(batch)) ELSE <<>>
            target == CASE outcome = "unexpected" -> unexpected_error_target
                        [] outcome \in {"api_error", "parse_error"} -> api_error_target
                        [] OTHER -> IF messages = <<>> THEN "idle_sleep" ELSE "handler"
        IN  /\ backlog' = IF resp = "ok" THEN batch ELSE backlog
            /\ last_fetch' = [outcome |-> outcome, offset |-> next_update_id,
                              batch |-> batch, delay |-> retry_sleep_seconds]
            /\ next_update_id' = IF outcome = "ok"
                                 THEN poll_once_cursor(next_update_id,
                                                       parsed_messages(batch))
                                 ELSE next_update_id
            /\ retry_sleep_seconds' =
                  IF outcome = "ok"
                  THEN reset_retry_sleep(retry_sleep_seconds, error_retry_sleep_seconds)
                  ELSE retry_sleep_seconds
            /\ pc' = target
            /\ pending' = messages
            /\ retry_sleeping' = IF target = "retry_sleep"
                                 THEN Some(error_sleep_arg(retry_sleep_seconds))
                                 ELSE None
            /\ sleeps' = IF outcome = "ok" THEN <<>>
                         ELSE IF target = "retry_sleep"
                              THEN record_sleep(error_sleep_arg(retry_sleep_seconds))
                              ELSE sleeps
            /\ handled' = <<>>
            /\ handler_raised' = {}
            /\ UNCHANGED <<config, other_parts, last_id, last_dispatched>>

\* time.sleep(retry_sleep_seconds) returns; the delay is doubled up to the
\* ceiling and the loop continues.
RetrySleepReturns ==
    /\ pc = "retry_sleep"
    /\ retry_sleep_seconds' =
          next_retry_sleep(retry_sleep_seconds, max_retry_sleep_seconds)
    /\ pc' = "poll"
    /\ retry_sleeping' = None
    /\ UNCHANGED <<config, other_parts, next_update_id, pending, backlog, last_id, last_fetch,
                   sleeps, handled, handler_raised, last_dispatched>>

\* time.sleep(idle_sleep_seconds) returns; the loop continues.
IdleSleepReturns ==
    /\ pc = "idle_sleep"
    /\ pc' = "poll"
    /\ UNCHANGED <<config, other_parts, next_update_id, retry_sleep_seconds, pending, backlog,
                   last_id, last_fetch, retry_sleeping, sleeps, handled,
                   handler_raised, last_dispatched>>

\* Variant: the while loop goes on to the next fetch after one message.
after_handler_pc_next_cycle(remaining) == "poll"

\* Where listen_forever is after a handler call: at the next message of
\* the for loop, or back at the top of the while loop.
after_handler_pc(remaining) == IF remaining = <<>> THEN "poll" ELSE "handler"

\* handler(message) returns for the next message of the batch.
HandlerReturns ==
    /\ pc = "handler"
    /\ handled' = Append(handled, Head(pending).update_id)
    /\ last_dispatched' = Some(Head(pending).update_id)
    /\ pending' = Tail(pending)
    /\ pc' = after_handler_pc(pending')
    /\ UNCHANGED <<config, other_parts, next_update_id, retry_sleep_seconds, backlog, last_id,
                   last_fetch, retry_sleeping, sleeps, handler_raised>>

\* handler(message) raises an Exception: it is printed and the for loop
\* goes on.
HandlerRaises ==
    /\ pc = "handler"
    /\ handled' = Append(handled, Head(pending).update_id)
    /\ handler_raised' = handler_raised \cup {Head(pending).update_id}
    /\ last_dispatched' = Some(Head(pending).update_id)
    /\ pending' = after_handler_error(pending)
    /\ pc' = after_handler_pc(pending')
    /\ UNCHANGED <<config, other_parts, next_update_id, retry_sleep_seconds, backlog, last_id,
                   last_fetch, retry_sleeping, sleeps>>

\* The caller decides that the loop should stop.  listen_forever takes
\* only (handler, idle_sleep_seconds): nothing carries the request to it.
RequestStop ==
    /\ pc # "off"
    /\ ~stop_requested
    /\ stop_requested' = TRUE
    /\ UNCHANGED <<error_retry_sleep_seconds, max_retry_sleep_seconds,
                   next_update_id, retry_sleep_seconds, pc, pending, backlog,
                   last_id, last_fetch, retry_sleeping, sleeps, handled,
                   handler_raised, last_dispatched, other_parts>>

LoopStep ==
    \/ Poll
    \/ RetrySleepReturns
    \/ IdleSleepReturns
    \/ HandlerReturns
    \/ HandlerRaises

Next ==
    \/ Arrive
    \/ RequestStop
    \/ Poll
    \/ RetrySleepReturns
    \/ IdleSleepReturns
    \/ HandlerReturns
    \/ HandlerRaises

Spec == Init /\ [][Next]_vars

\* The fetch carries a timeout, time.sleep returns and the handler is
\* assumed to return or raise, so the loop always takes its next step.
FairSpec == Spec /\ WF_vars(LoopStep)

\* ================================================================ claims
\* A fetch whose transport succeeded (the batch reached get_updates).
FetchReceived == last_fetch.outcome \in {"ok", "parse_error"}

\* The update ids of the canonical messages of the last received batch.
BatchMessageIds == update_ids(parsed_messages(last_fetch.batch))

\* C1: for every non-empty batch returned by a successful fetch, the cursor
\* after the cycle is (max update_id over ALL updates of the batch) + 1.
C1_CursorIsMaxOfFullBatch ==
    (FetchReceived /\ last_fetch.batch # <<>>)
        => next_update_id = Some(MaxOf(raw_ids(last_fetch.batch)) + 1)

\* C2: after a received batch in which a message-bearing update failed
\* structural validation, the next fetch is issued with a cursor greater
\* than every update_id of that batch.
C2_UnparsableNeverBlocksCursor ==
    (pc = "poll" /\ last_fetch.outcome = "parse_error")
        => /\ ~IsNone(next_update_id)
           /\ \A i \in 1..Len(last_fetch.batch) :
                 Val(next_update_id) > raw_id(last_fetch.batch[i])

\* C3: a cycle that ends in a transport failure leaves the cursor unchanged,
\* sleeps the delay that was current when it failed, and the next fetch is
\* issued with the cursor of the failed one.
C3_TransportFailureKeepsCursor ==
    last_fetch.outcome = "api_error"
        => /\ pc \in {"retry_sleep", "poll"}
           /\ next_update_id = last_fetch.offset
           /\ pc = "retry_sleep" => retry_sleeping = Some(last_fetch.delay)

C3_Witness ==
    /\ last_fetch.outcome = "api_error"
    /\ pc = "poll"
    /\ ~IsNone(next_update_id)
    /\ last_fetch.delay > error_retry_sleep_seconds

\* C4: over consecutive failed cycles the delay and every delay slept are
\* non-decreasing and never exceed the ceiling, for every floor/ceiling the
\* module can be constructed with; a successful cycle resets to the floor.
C4_BackoffMonotoneWithinCeiling ==
    /\ retry_sleep_seconds <= max_retry_sleep_seconds
    /\ \A i \in 1..Len(sleeps) : sleeps[i] <= max_retry_sleep_seconds
    /\ \A i \in 1..(Len(sleeps) - 1) : sleeps[i] <= sleeps[i + 1]
    /\ last_fetch.outcome = "ok" => retry_sleep_seconds = error_retry_sleep_seconds

\* C5: the k-th consecutive failed cycle of a streak sleeps
\* min(floor * 2^(k-1), ceiling).
C5_KthFailureSleep ==
    \A k \in 1..Len(sleeps) :
        sleeps[k] = Min(error_retry_sleep_seconds * Pow2(k - 1),
                        max_retry_sleep_seconds)

\* C6: for every batch poll_once returned, the handler is invoked exactly
\* once per canonical message of the batch, in delivery order; the batch
\* [first id (text), first id + 2 (document)] with the cursor unset is
\* dispatched in that order and the cursor becomes first id + 3.
C6_HandlerOncePerMessageInOrder ==
    /\ last_fetch.outcome = "ok"
          => /\ handled \o update_ids(pending) = BatchMessageIds
             /\ pc = "poll" => pending = <<>>
    /\ ( /\ last_fetch.outcome = "ok"
         /\ IsNone(last_fetch.offset)
         /\ last_fetch.batch = <<raw_update(FirstUpdateId, "text"),
                                 raw_update(FirstUpdateId + 2, "document")>>
         /\ pc = "poll" )
          => /\ handled = <<FirstUpdateId, FirstUpdateId + 2>>
             /\ next_update_id = Some(FirstUpdateId + 3)

C6_Witness ==
    /\ pc = "poll"
    /\ IsNone(last_fetch.offset)
    /\ last_fetch.batch = <<raw_update(FirstUpdateId, "text"),
                            raw_update(FirstUpdateId + 2, "document")>>
    /\ handled = <<FirstUpdateId, FirstUpdateId + 2>>
    /\ next_update_id = Some(FirstUpdateId + 3)

\* C7: a handler failure is isolated: the remaining messages of the batch
\* are still passed to the handler, the cycle completes and the loop goes on
\* to the next fetch, and the failure changes neither cursor nor delay.
C7_HandlerFailureState ==
    handler_raised # {}
        => /\ last_fetch.outcome = "ok"
           /\ pc \in {"handler", "poll"}
           /\ handled \o update_ids(pending) = BatchMessageIds
           /\ pc = "poll" => handled = BatchMessageIds
           /\ next_update_id = Some(MaxOf(BatchMessageIds) + 1)
           /\ retry_sleep_seconds = error_retry_sleep_seconds

C7_HandlerFailureStep ==
    (handler_raised' # handler_raised /\ handler_raised' # {})
        => /\ UNCHANGED <<next_update_id, retry_sleep_seconds>>
           /\ pending' = Tail(pending)

C7_HandlerFailureIsolated ==
    []C7_HandlerFailureState /\ [][C7_HandlerFailureStep]_vars

C7_Witness ==
    /\ pc = "poll"
    /\ Len(handled) = 2
    /\ handler_raised = {handled[1]}

\* C8: listen_forever never ends because of transport or handler errors:
\* the loop keeps running and always issues another fetch.
C8_LoopNeverTerminates ==
    [](pc # "raised") /\ []<><<Poll>>_vars

C8_Witness ==
    /\ pc = "poll"
    /\ last_fetch.outcome = "api_error"
    /\ Len(sleeps) = MaxStreak
    /\ ~IsNone(next_update_id)

\* C9 (as claimed): a failure of a poll cycle that is neither a transport
\* error nor a handler error propagates out of listen_forever and ends it.
C9_DefectPropagates ==
    last_fetch.outcome = "unexpected" => pc = "raised"

\* C9 (amended): such a failure is caught by the generic except branch: the
\* loop sleeps the current delay, doubles it up to the ceiling and fetches
\* again with the cursor unchanged; it does not leave listen_forever.
C9_DefectIsRetried ==
    last_fetch.outcome = "unexpected"
        => /\ pc \in {"retry_sleep", "poll"}
           /\ next_update_id = last_fetch.offset
           /\ pc = "retry_sleep" => retry_sleeping = Some(last_fetch.delay)
           /\ pc = "poll" => retry_sleep_seconds =
                                Min(last_fetch.delay * 2, max_retry_sleep_seconds)

C9_Witness ==
    /\ last_fetch.outcome = "unexpected"
    /\ pc = "poll"
    /\ ~IsNone(next_update_id)

\* C10: the cursor starts unset and, once set, never decreases and is never
\* unset again, whatever the cycles are.
C10_CursorStep ==
    ~IsNone(next_update_id)
        => /\ ~IsNone(next_update_id')
           /\ Val(next_update_id') >= Val(next_update_id)

C10_CursorNeverDecreases ==
    IsNone(next_update_id) /\ [][C10_CursorStep]_vars

C10_Witness ==
    /\ ~IsNone(last_fetch.offset)
    /\ ~IsNone(next_update_id)
    /\ Val(next_update_id) > Val(last_fetch.offset)

\* C11: in the poll path a parse failure of a fetched update does not send
\* the loop into the backoff-and-retry branch of transport failures and
\* does not cause the same batch to be fetched again.
C11_ParseFailureNotRetried ==
    last_fetch.outcome = "parse_error"
        => /\ pc # "retry_sleep"
           /\ IsNone(retry_sleeping)
           /\ next_update_id # last_fetch.offset

\* C12: once stop is requested the loop exits without starting another
\* fetch: no step taken while stop is requested is a fetch.
C12_StopStep ==
    stop_requested => ~(pc = "poll" /\ pc' # "poll")

C12_StopPreventsFetch ==
    [][C12_StopStep]_vars

\* =========================================================== other parts
\* A process that does not run listen_forever: the module is constructed
\* with its defaults and the loop variables stay as they are.
LoopNotRunning ==
    /\ error_retry_sleep_seconds = DefaultFloor
    /\ max_retry_sleep_seconds = DefaultCeiling
    /\ next_update_id = None
    /\ retry_sleep_seconds = DefaultFloor
    /\ pc = "off"
    /\ pending = <<>>
    /\ backlog = <<>>
    /\ last_id = MaxUpdateId
    /\ last_fetch = [outcome |-> "none", offset |-> None, batch |-> <<>>,
                     delay |-> DefaultFloor]
    /\ retry_sleeping = None
    /\ sleeps = <<>>
    /\ handled = <<>>
    /\ handler_raised = {}
    /\ last_dispatched = None
    /\ stop_requested = FALSE

loop_vars == <<error_retry_sleep_seconds, max_retry_sleep_seconds,
               next_update_id, retry_sleep_seconds, pc, pending, backlog,
               last_id, last_fetch, retry_sleeping, sleeps, handled,
               handler_raised, last_dispatched, stop_requested>>

\* ------------------------------------------------- parse_update_message
\* client.parse_update_message is imported by module.py (line 12) and
\* called by TelegramBotModule.parse_update_message, but client.py does not
\* hold it.  It is modelled from the specification's update parser (4.2):
\* absent for an update without a message, otherwise the one shared parsing
\* policy (_parse_message), raising TelegramApiError as its caller expects.
parse_update_message_outcome(raw) ==
    IF ~require_dict_ok(raw) THEN "error"
    ELSE IF Get(raw.v, "message").t = "null" THEN "absent"
    ELSE IF ~require_dict_ok(Get(raw.v, "message")) THEN "error"
    ELSE IF parse_message_ok(raw.v, Get(raw.v, "message").v) THEN "message"
    ELSE "error"

parse_update_message(raw) == parse_message(raw.v, Get(raw.v, "message").v)

\* The outcome of a parse: "message" with the message, "absent" or "error".
parse_result(kind, message) == [kind |-> kind, message |-> message]

\* The webhook path: TelegramBotModule.parse_update_message(payload).
webhook_path_parse(raw) ==
    IF parse_update_message_outcome(raw) = "message"
    THEN parse_result("message", Some(parse_update_message(raw)))
    ELSE parse_result(parse_update_message_outcome(raw), None)

\* The poll path: get_updates on a result list that holds this one update.
poll_path_parse(raw) ==
    IF get_updates_raises(<<raw>>) THEN parse_result("error", None)
    ELSE IF parsed_messages(<<raw>>) = <<>> THEN parse_result("absent", None)
    ELSE parse_result("message", Some(parsed_messages(<<raw>>)[1]))

\* ---------------------------------------------------- raw update payloads
\* Payloads are a well-formed update (every field present and valid, two
\* photo sizes, a document) changed in at most MaxDeviations fields.
MaxDeviations == 2

PayloadFields == {"raw", "message", "update_id", "chat", "message_id", "date",
                  "from", "text", "caption", "photo", "document"}

\* The ways a field can deviate from the well-formed payload.
Alternatives(f) ==
    CASE f = "raw" -> {"list"}
      [] f = "message" -> {"missing", "str"}
      [] f = "update_id" -> {"missing", "bool", "str"}
      [] f = "chat" -> {"missing", "str", "noid", "idstr"}
      [] f = "message_id" -> {"missing", "str"}
      [] f = "date" -> {"missing", "bool"}
      [] f = "from" -> {"missing", "list", "empty", "noid", "idstr"}
      [] f = "text" -> {"missing", "int"}
      [] f = "caption" -> {"missing", "int"}
      [] f = "photo" -> {"missing", "str", "empty", "nowidth", "sizestr"}
      [] f = "document" -> {"missing", "str", "nofileid", "namebad"}

AllAlternatives == UNION {Alternatives(f) : f \in PayloadFields}

Deviations ==
    UNION { { g \in [D -> AllAlternatives] : \A f \in D : g[f] \in Alternatives(f) }
            : D \in { D \in SUBSET PayloadFields : Cardinality(D) <= MaxDeviations } }

\* The alternative chosen for a field: "ok" when it does not deviate.
alt(g, f) == IF f \in DOMAIN g THEN g[f] ELSE "ok"

photo_size(w, a) ==
    CASE a = "nowidth" ->
           JDict([file_id |-> JStr("p"), file_unique_id |-> JStr("q"),
                  height |-> JInt(w)])
      [] a = "sizestr" ->
           JDict([file_id |-> JStr("p"), file_unique_id |-> JStr("q"),
                  width |-> JInt(w), height |-> JInt(w), file_size |-> JStr("9")])
      [] OTHER ->
           JDict([file_id |-> IF w = 1 THEN JStr("small") ELSE JStr("large"),
                  file_unique_id |-> JStr("q"),
                  width |-> JInt(w), height |-> JInt(w)])

\* The JSON value of a field of the payload under an alternative.
field_value(f, a, id) ==
    CASE a = "str" -> JStr("x")
      [] a = "int" -> JInt(5)
      [] a = "bool" -> JBool(TRUE)
      [] a = "list" -> JList(<<>>)
      [] a = "empty" /\ f = "from" -> JDict([k \in {} |-> Null])
      [] a = "empty" /\ f = "photo" -> JList(<<>>)
      [] a = "noid" -> JDict([title |-> JStr("t")])
      [] a = "idstr" -> JDict([id |-> JStr("7")])
      [] a \in {"nowidth", "sizestr"} -> JList(<<photo_size(1, "ok"), photo_size(2, a)>>)
      [] a = "nofileid" -> JDict([file_unique_id |-> JStr("u1")])
      [] a = "namebad" ->
           JDict([file_id |-> JStr("f1"), file_unique_id |-> JStr("u1"),
                  file_name |-> JInt(1)])
      [] a = "ok" /\ f \in {"update_id", "message_id", "date"} -> JInt(id)
      [] a = "ok" /\ f = "chat" -> JDict([id |-> JInt(1)])
      [] a = "ok" /\ f = "from" -> JDict([id |-> JInt(2)])
      [] a = "ok" /\ f \in {"text", "caption"} -> JStr("hi")
      [] a = "ok" /\ f = "photo" ->
           JList(<<photo_size(1, "ok"), photo_size(2, "ok")>>)
      [] a = "ok" /\ f = "document" ->
           JDict([file_id |-> JStr("f1"), file_unique_id |-> JStr("u1"),
                  file_name |-> JStr("a.pdf")])

MessageKeys == PayloadFields \ {"raw", "message", "update_id"}

\* The decoded payload for a choice of deviations.
payload(g, id) ==
    LET message_map ==
            [k \in {f \in MessageKeys : alt(g, f) # "missing"}
                |-> field_value(k, alt(g, k), id)]
        top_keys == {f \in {"update_id", "message"} : alt(g, f) # "missing"}
        update_map ==
            [k \in top_keys |->
                IF k = "update_id" THEN field_value(k, alt(g, k), id)
                ELSE IF alt(g, k) = "str" THEN JStr("x")
                ELSE JDict(message_map)]
    IN  IF alt(g, "raw") = "list" THEN JList(<<>>) ELSE JDict(update_map)

\* _process_incoming_message: the downloads it asks for, in order: the
\* last photo size, then the document.  File names of the payloads have no
\* directory part, so _safe_file_name leaves them as they are.
\* Variant: the first, smallest size is taken.
photo_download_first(message) ==
    IF message.photos # <<>>
    THEN <<[file_id |-> message.photos[1].file_id,
            path |-> <<"photo", message.message_id>>]>>
    ELSE <<>>

photo_download(message) ==
    IF message.photos # <<>>
    THEN <<[file_id |-> message.photos[Len(message.photos)].file_id,
            path |-> <<"photo", message.message_id>>]>>
    ELSE <<>>

document_download(message) ==
    IF ~IsNone(message.document)
    THEN <<[file_id |-> Val(message.document).file_id,
            path |-> <<"document", message.message_id,
                       IF IsNone(Val(message.document).file_name)
                       THEN "document.bin"
                       ELSE Val(Val(message.document).file_name)>>]>>
    ELSE <<>>

wanted_downloads(message) == photo_download(message) \o document_download(message)

\* handle_message of the CLI listen command: the downloads it asks for, in
\* order: the last photo size, then the document.
handle_message_photo(message) ==
    IF message.photos # <<>>
    THEN <<[file_id |-> message.photos[Len(message.photos)].file_id,
            path |-> <<"photo", message.message_id>>]>>
    ELSE <<>>

handle_message_document(message) ==
    IF ~IsNone(message.document)
    THEN <<[file_id |-> Val(message.document).file_id,
            path |-> <<"document", message.message_id,
                       IF IsNone(Val(message.document).file_name)
                       THEN "document.bin"
                       ELSE Val(Val(message.document).file_name)>>]>>
    ELSE <<>>

handle_message(message) ==
    handle_message_photo(message) \o handle_message_document(message)

\* One raw update taken through both paths.
ParserInit ==
    /\ LoopNotRunning
    /\ webhook = NoWebhook
    /\ client_call = NoClientCall
    /\ built = NotBuilt
    /\ \E g \in Deviations :
          parse_case = [running |-> TRUE, deviations |-> g,
                        raw |-> payload(g, FirstUpdateId), done |-> FALSE,
                        poll |-> parse_result("none", None),
                        hook |-> parse_result("none", None),
                        consumed |-> FALSE,
                        cli_downloads |-> <<>>, hook_downloads |-> <<>>]

ParseUpdate ==
    /\ parse_case.running
    /\ ~parse_case.done
    /\ parse_case' = [parse_case EXCEPT
                        !.done = TRUE,
                        !.poll = poll_path_parse(parse_case.raw),
                        !.hook = webhook_path_parse(parse_case.raw)]
    /\ UNCHANGED <<loop_vars, webhook, client_call, built>>

\* The canonical message reaches both consumers: the CLI handler through
\* listen_forever, the webhook processor through telegram_webhook.
ConsumeMessage ==
    /\ parse_case.running
    /\ parse_case.done
    /\ ~parse_case.consumed
    /\ parse_case.poll.kind = "message"
    /\ parse_case.hook.kind = "message"
    /\ parse_case' = [parse_case EXCEPT
                        !.consumed = TRUE,
                        !.cli_downloads = handle_message(Val(parse_case.poll.message)),
                        !.hook_downloads = wanted_downloads(Val(parse_case.hook.message))]
    /\ UNCHANGED <<loop_vars, webhook, client_call, built>>

ParserNext == ParseUpdate \/ ConsumeMessage

ParserSpec == ParserInit /\ [][ParserNext]_vars

MessageBearing(g) == alt(g, "raw") = "ok" /\ alt(g, "message") = "ok"

\* A structurally required field is missing or of the wrong type.
RequiredFieldBad(g) ==
    \E f \in {"update_id", "chat", "message_id", "date"} : alt(g, f) # "ok"

\* An optional field is present and not of its type.
OptionalFieldBad(g) ==
    \/ alt(g, "from") \in {"list", "idstr"}
    \/ alt(g, "text") = "int"
    \/ alt(g, "caption") = "int"
    \/ alt(g, "photo") \in {"str", "nowidth", "sizestr"}
    \/ alt(g, "document") \in {"str", "nofileid", "namebad"}

\* C17: a message-bearing update fails parsing exactly when a required
\* field (chat id, message id, timestamp, update id) is missing or of the
\* wrong type or a present optional field is of the wrong type; missing
\* optional fields parse to absent values.
C17_ParseFailsExactlyOnBadFields ==
    ( /\ parse_case.running
      /\ parse_case.done
      /\ MessageBearing(parse_case.deviations) )
        => LET g == parse_case.deviations
               r == parse_case.poll
           IN  /\ r.kind \in {"error", "message"}
               /\ r.kind = "error" <=> (RequiredFieldBad(g) \/ OptionalFieldBad(g))
               /\ r.kind = "message" =>
                    /\ alt(g, "text") = "missing" => IsNone(Val(r.message).text)
                    /\ alt(g, "caption") = "missing"
                          => IsNone(Val(r.message).caption)
                    /\ alt(g, "from") \in {"missing", "empty", "noid"}
                          => IsNone(Val(r.message).from_user_id)
                    /\ alt(g, "photo") \in {"missing", "empty"}
                          => Val(r.message).photos = <<>>
                    /\ alt(g, "document") = "missing"
                          => IsNone(Val(r.message).document)

C17_Witness ==
    /\ parse_case.running
    /\ parse_case.done
    /\ alt(parse_case.deviations, "text") = "missing"
    /\ alt(parse_case.deviations, "caption") = "missing"
    /\ parse_case.poll.kind = "message"
    /\ IsNone(Val(parse_case.poll.message).text)
    /\ IsNone(Val(parse_case.poll.message).caption)

\* ------------------------------------------------------ the webhook app
\* Strings that are stripped are sequences of characters.
RECURSIVE lstrip(_)
lstrip(s) == IF s # <<>> /\ Head(s) = " " THEN lstrip(Tail(s)) ELSE s

RECURSIVE rstrip(_)
rstrip(s) ==
    IF s # <<>> /\ s[Len(s)] = " " THEN rstrip(SubSeq(s, 1, Len(s) - 1)) ELSE s

\* str.strip()
strip(s) == rstrip(lstrip(s))

\* Values of the environment variable TELEGRAM_WEBHOOK_SECRET.
SecretEnvValues ==
    {None, Some(<<>>), Some(<<" ">>), Some(<<"a", "b", "c">>),
     Some(<<" ", "a", "b", "c", " ">>)}

\* Values of the X-Telegram-Bot-Api-Secret-Token header of a request.
HeaderValues == {None, Some(<<"a", "b", "c">>), Some(<<"w", "r", "o", "n", "g">>)}

\* Variant: a blank secret is kept as a secret.
runtime_secret_token_keeps_blank(secret_raw) ==
    IF ~IsNone(secret_raw) THEN Some(strip(Val(secret_raw))) ELSE None

\* get_runtime: the secret token kept in WebhookRuntime.
runtime_secret_token(secret_raw) ==
    IF ~IsNone(secret_raw) /\ strip(Val(secret_raw)) # <<>>
    THEN Some(strip(Val(secret_raw)))
    ELSE None

\* telegram_webhook: the secret check raises 403.
secret_rejects(secret_token, header) ==
    ~IsNone(secret_token) /\ header # secret_token

\* Request bodies: text that is not JSON, or a decoded JSON value.
NotJson == [json |-> FALSE, raw |-> Null]
JsonBody(raw) == [json |-> TRUE, raw |-> raw]

PhotoOnly == ("document" :> "missing")
WellFormed == [f \in {} |-> "ok"]

WebhookBodies ==
    {NotJson, JsonBody(JList(<<>>))}
      \cup {JsonBody(raw_update(FirstUpdateId, kind)) : kind \in UpdateKinds}
      \cup {JsonBody(payload(g, FirstUpdateId)) : g \in {PhotoOnly, WellFormed}}

\* The downloads bot.download_file is called for when the calls whose
\* number is in `failing` raise: everything up to the first failing call.
RECURSIVE attempted_downloads(_, _, _)
attempted_downloads(wanted, failing, n) ==
    IF wanted = <<>> THEN <<>>
    ELSE IF n \in failing THEN <<Head(wanted)>>
    ELSE <<Head(wanted)>> \o attempted_downloads(Tail(wanted), failing, n + 1)

\* Variant: the body is read and parsed before the secret is checked.
webhook_outcome_parses_first(secret_token, header, body, parsed, failing) ==
    IF ~body.json THEN "invalid_json"
    ELSE IF parsed.kind = "error" THEN "invalid_update"
    ELSE IF secret_rejects(secret_token, header) THEN "forbidden"
    ELSE IF parsed.kind = "absent" THEN "unsupported"
    ELSE IF \E n \in failing : n <= Len(wanted_downloads(Val(parsed.message)))
         THEN "download_error"
    ELSE "processed"

\* Variant: a failed download is swallowed and the request is answered
\* as processed.
webhook_outcome_swallows_download_error(secret_token, header, body, parsed, failing) ==
    IF secret_rejects(secret_token, header) THEN "forbidden"
    ELSE IF ~body.json THEN "invalid_json"
    ELSE IF parsed.kind = "error" THEN "invalid_update"
    ELSE IF parsed.kind = "absent" THEN "unsupported"
    ELSE "processed"

\* telegram_webhook: how the request ends; `parsed` is what
\* parse_update_message makes of the body when it is called.  "forbidden"
\* is the 403, "invalid_json" and "invalid_update" the two 400s,
\* "unsupported" and "processed" the two 200 answers, "download_error" the
\* TelegramApiError of bot.download_file leaving the handler.
webhook_outcome(secret_token, header, body, parsed, failing) ==
    IF secret_rejects(secret_token, header) THEN "forbidden"
    ELSE IF ~body.json THEN "invalid_json"
    ELSE IF parsed.kind = "error" THEN "invalid_update"
    ELSE IF parsed.kind = "absent" THEN "unsupported"
    ELSE IF \E n \in failing : n <= Len(wanted_downloads(Val(parsed.message)))
         THEN "download_error"
    ELSE "processed"

\* The calls of bot.download_file that raise: none, the first or the second.
FailingCalls == {{}, {1}, {2}}

\* The paths written by the attempted downloads that did not fail.
written_paths(attempted, failing) ==
    {attempted[i].path : i \in {j \in 1..Len(attempted) : j \notin failing}}

\* The loop variables other than the cursor.
loop_rest == <<error_retry_sleep_seconds, max_retry_sleep_seconds,
               retry_sleep_seconds, pc, pending, backlog, last_id, last_fetch,
               retry_sleeping, sleeps, handled, handler_raised,
               last_dispatched, stop_requested>>

\* Variant: the method moves the cursor past the update, as poll_once does.
parse_update_message_cursor_advances(cursor, parsed) ==
    IF parsed.kind = "message"
    THEN Some(Val(parsed.message).update_id + 1)
    ELSE cursor

\* TelegramBotModule.parse_update_message: self._next_update_id after the
\* call; the method only hands the update to the parser.
parse_update_message_cursor(cursor, parsed) == cursor

\* The app process after get_runtime, before any request.
WebhookInit ==
    /\ LoopNotRunning
    /\ parse_case = NoParseCase
    /\ client_call = NoClientCall
    /\ built = NotBuilt
    /\ \E secret_raw \in SecretEnvValues :
          webhook = [running |-> TRUE,
                     secret_raw |-> secret_raw,
                     secret_token |-> runtime_secret_token(secret_raw),
                     header |-> None, body |-> NotJson, failing |-> {},
                     outcome |-> "none",
                     body_read |-> FALSE, parse_calls |-> 0,
                     downloads |-> <<>>, disk |-> {}]

\* One request to POST /telegram/webhook, from the secret check to the
\* response or the exception that leaves the handler.
TelegramWebhook ==
    /\ webhook.running
    /\ \E body \in WebhookBodies :
        LET parsed == webhook_path_parse(body.raw)
        IN  \E header \in HeaderValues, failing \in FailingCalls :
            LET outcome == webhook_outcome(webhook.secret_token, header, body,
                                           parsed, failing)
                body_read == outcome # "forbidden"
                parser_called == body_read /\ body.json
                attempted ==
                    IF outcome \in {"processed", "download_error"}
                    THEN attempted_downloads(
                            wanted_downloads(Val(parsed.message)), failing, 1)
                    ELSE <<>>
            IN  /\ webhook' = [webhook EXCEPT
                                 !.header = header,
                                 !.body = body,
                                 !.failing = failing,
                                 !.outcome = outcome,
                                 !.body_read = body_read,
                                 !.parse_calls = IF parser_called THEN 1 ELSE 0,
                                 !.downloads = attempted,
                                 !.disk = @ \cup written_paths(attempted, failing)]
                /\ next_update_id' =
                      IF parser_called
                      THEN parse_update_message_cursor(next_update_id, parsed)
                      ELSE next_update_id
    /\ UNCHANGED <<loop_rest, parse_case, client_call, built>>

WebhookNext == TelegramWebhook

WebhookSpec == WebhookInit /\ [][WebhookNext]_vars

\* The process is either the polling loop or the webhook app.
SystemInit == Init \/ WebhookInit

SystemNext == Next \/ WebhookNext

SystemSpec == SystemInit /\ [][SystemNext]_vars

\* A request has been answered by the webhook app.
Answered == webhook.running /\ webhook.outcome # "none"

\* The request's header differs from the configured secret or is missing.
SecretMismatch(w) == ~IsNone(w.secret_token) /\ w.header # w.secret_token

\* C13: with a secret configured, a request whose secret header differs
\* from it or is missing is rejected before the body is read or parsed: the
\* parser is not invoked, no download runs, and no file is written.
C13_RejectedState ==
    (Answered /\ SecretMismatch(webhook))
        => /\ webhook.outcome = "forbidden"
           /\ ~webhook.body_read
           /\ webhook.parse_calls = 0
           /\ webhook.downloads = <<>>

C13_RejectedStep ==
    (webhook'.running /\ SecretMismatch(webhook'))
        => /\ webhook'.disk = webhook.disk
           /\ webhook'.secret_token = webhook.secret_token

C14_OneOfFourOutcomes ==
    Answered
        => webhook.outcome \in {"forbidden", "invalid_json", "invalid_update",
                                "unsupported", "processed"}

\* A decoded update that is an object without a message field.
HasMessage(raw) == raw.t = "dict" /\ "message" \in DOMAIN raw.v
NoMessageField(raw) == raw.t = "dict" /\ "message" \notin DOMAIN raw.v

MessageBearingIds(raws) ==
    [i \in 1..Len(SelectSeq(raws, HasMessage)) |->
        raw_id(SelectSeq(raws, HasMessage)[i])]

\* C16: an update without a message field is filtered, not failed: it gives
\* no canonical message and no error, the other updates of its batch are
\* still parsed and dispatched, and the webhook answers it as accepted and
\* not processed.
C16_NoMessageIsFiltered ==
    /\ last_fetch.outcome = "parse_error"
          => \E i \in 1..Len(last_fetch.batch) : HasMessage(last_fetch.batch[i])
    /\ last_fetch.outcome = "ok"
          => /\ handled \o update_ids(pending) = MessageBearingIds(last_fetch.batch)
             /\ pc = "poll" => pending = <<>>
    /\ ( /\ Answered
         /\ webhook.outcome # "forbidden"
         /\ webhook.body.json
         /\ NoMessageField(webhook.body.raw) )
          => /\ webhook.outcome = "unsupported"
             /\ webhook.downloads = <<>>

C16_Witness ==
    /\ pc = "poll"
    /\ last_fetch.outcome = "ok"
    /\ last_fetch.batch = <<raw_update(FirstUpdateId, "edited"),
                            raw_update(FirstUpdateId + 1, "text")>>
    /\ handled = <<FirstUpdateId + 1>>

\* ------------------------------------------------- the transport client
\* What urlopen and response.read() of _post_json come to: HTTPError,
\* URLError, a timeout while the response is read (TimeoutError, an OSError
\* that is not a URLError), a body that is not JSON, or a JSON body.
Reply(kind, decoded) == [kind |-> kind, decoded |-> decoded]

DecodedReplies ==
    <<JList(<<>>),
      JDict([description |-> JStr("x")]),
      JDict("ok" :> JInt(1)),
      JDict("ok" :> JBool(FALSE)),
      JDict("ok" :> JBool(FALSE) @@ [description |-> JStr("Bad Request"),
                                     error_code |-> JInt(400)]),
      JDict("ok" :> JBool(FALSE) @@ [description |-> JInt(1)]),
      JDict("ok" :> JBool(TRUE)),
      JDict("ok" :> JBool(TRUE) @@ [result |-> JList(<<>>)]),
      JDict("ok" :> JBool(TRUE)
              @@ [result |-> JDict([message_id |-> JInt(7)])]),
      JDict("ok" :> JBool(TRUE)
              @@ [result |-> JDict([message_id |-> JStr("7")])]),
      JDict("ok" :> JBool(TRUE)
              @@ [result |-> JDict([file_path |-> JStr("photos/a.jpg")])])>>

PostReplies ==
    {Reply(kind, Null) : kind \in {"http_error", "url_error", "read_timeout",
                                   "not_json"}}
      \cup {Reply("json", DecodedReplies[i]) : i \in 1..Len(DecodedReplies)}

\* How a call ends: with a value, with TelegramApiError ("api_error") or
\* with another exception ("other_error").
Ended(kind, value) == [kind |-> kind, value |-> value]

\* _post_json: one urlopen; only HTTPError and URLError are turned into
\* TelegramApiError, json.loads is outside the try block.
post_json(reply) ==
    IF reply.kind \in {"http_error", "url_error"} THEN Ended("api_error", None)
    ELSE IF reply.kind \in {"read_timeout", "not_json"}
         THEN Ended("other_error", None)
    ELSE IF ~require_dict_ok(reply.decoded) THEN Ended("api_error", None)
    ELSE IF ~require_bool_ok(Get(reply.decoded.v, "ok")) THEN Ended("api_error", None)
    ELSE IF ~Get(reply.decoded.v, "ok").v THEN Ended("api_error", None)
    ELSE Ended("value", Some(reply.decoded.v))

\* _require_dict(response.get("result"), "result") on the response of
\* _post_json.
result_object(reply) ==
    LET response == post_json(reply)
    IN  IF response.kind # "value" THEN response
        ELSE IF ~require_dict_ok(Get(Val(response.value), "result"))
             THEN Ended("api_error", None)
        ELSE Ended("value", Some(Get(Val(response.value), "result").v))

send_message(reply) ==
    LET result == result_object(reply)
    IN  IF result.kind # "value" THEN result
        ELSE IF ~require_int_ok(Get(Val(result.value), "message_id"))
             THEN Ended("api_error", None)
        ELSE Ended("value", Some(Get(Val(result.value), "message_id").v))

get_file_path(reply) ==
    LET result == result_object(reply)
    IN  IF result.kind # "value" THEN result
        ELSE IF ~require_str_ok(Get(Val(result.value), "file_path"))
             THEN Ended("api_error", None)
        ELSE Ended("value", Some(Get(Val(result.value), "file_path").v))

\* What urlopen and response.read() of download_file come to.
FetchReplies == {"http_error", "url_error", "read_timeout", "bytes"}

\* download_file: the outcome, the destination's content afterwards,
\* whether the parent directory was made, and the requests issued.
download_file(reply, fetch, destination) ==
    LET file_path == get_file_path(reply)
    IN  IF file_path.kind # "value"
        THEN [ended |-> file_path, destination |-> destination,
              mkdir |-> FALSE, requests |-> 1]
        ELSE IF fetch \in {"http_error", "url_error"}
        THEN [ended |-> Ended("api_error", None), destination |-> destination,
              mkdir |-> TRUE, requests |-> 2]
        ELSE IF fetch = "read_timeout"
        THEN [ended |-> Ended("other_error", None), destination |-> destination,
              mkdir |-> TRUE, requests |-> 2]
        ELSE [ended |-> Ended("value", Some("destination")),
              destination |-> Some("new"), mkdir |-> TRUE, requests |-> 2]

\* A client, a destination path that is absent or holds old content, and no
\* call made yet.
ClientInit ==
    /\ LoopNotRunning
    /\ webhook = NoWebhook
    /\ parse_case = NoParseCase
    /\ built = NotBuilt
    /\ \E destination \in {None, Some("old")} :
          client_call = [running |-> TRUE, op |-> "none", reply |-> Reply("none", Null),
                         fetch |-> "none", ended |-> Ended("none", None),
                         requests |-> 0, before |-> destination,
                         destination |-> destination,
                         parent_dir |-> ~IsNone(destination)]

SendMessage ==
    /\ client_call.running
    /\ \E reply \in PostReplies :
          client_call' = [client_call EXCEPT
                            !.op = "send_message", !.reply = reply,
                            !.fetch = "none", !.ended = send_message(reply),
                            !.requests = 1, !.before = client_call.destination]
    /\ UNCHANGED <<loop_vars, webhook, parse_case, built>>

GetFilePath ==
    /\ client_call.running
    /\ \E reply \in PostReplies :
          client_call' = [client_call EXCEPT
                            !.op = "get_file_path", !.reply = reply,
                            !.fetch = "none", !.ended = get_file_path(reply),
                            !.requests = 1, !.before = client_call.destination]
    /\ UNCHANGED <<loop_vars, webhook, parse_case, built>>

DownloadFile ==
    /\ client_call.running
    /\ \E reply \in PostReplies, fetch \in FetchReplies :
        LET call == download_file(reply, fetch, client_call.destination)
        IN  client_call' = [client_call EXCEPT
                              !.op = "download_file", !.reply = reply,
                              !.fetch = IF call.requests = 2 THEN fetch ELSE "none",
                              !.ended = call.ended,
                              !.requests = call.requests,
                              !.before = client_call.destination,
                              !.destination = call.destination,
                              !.parent_dir = @ \/ call.mkdir]
    /\ UNCHANGED <<loop_vars, webhook, parse_case, built>>

ClientNext == SendMessage \/ GetFilePath \/ DownloadFile

ClientSpec == ClientInit /\ [][ClientNext]_vars

\* C18: each API call issues one request and, when it fails, fails with
\* TelegramApiError and with no other kind of error.
C18_OneRequestOneErrorKind ==
    (client_call.running /\ client_call.op \in {"send_message", "get_file_path"})
        => /\ client_call.requests = 1
           /\ client_call.ended.kind \in {"value", "api_error"}

\* C19: download_file resolves the file path, then fetches the bytes, and
\* writes the destination after the bytes were read: it ends with the new
\* content written, or with TelegramApiError and the destination's previous
\* content unchanged.
C19_DownloadAllOrNothing ==
    (client_call.running /\ client_call.op = "download_file")
        => \/ /\ client_call.ended.kind = "value"
              /\ client_call.requests = 2
              /\ client_call.destination = Some("new")
           \/ /\ client_call.ended.kind = "api_error"
              /\ client_call.destination = client_call.before

\* ------------------------------------------------ building the module
\* Seconds are integers here; the code's floats are whole numbers of
\* seconds in every case below.
MaxPollTimeout == 3
MaxRequestTimeout == 9

\* TelegramBotModule.__init__ and from_token: poll_timeout_seconds = 60.
DefaultPollTimeout == 60
\* from_token and from_env: request_timeout_seconds = 75.0.
DefaultRequestTimeout == 75
\* TelegramConfig: request_timeout_seconds = 30.0.
ConfigRequestTimeout == 30
\* from_token: float(poll_timeout_seconds) + 5.0.
RequestMargin == 5

PollTimeouts == 1..MaxPollTimeout \cup {DefaultPollTimeout}
RequestTimeouts == 1..MaxRequestTimeout \cup {DefaultRequestTimeout}

\* A module: the long-poll timeout it asks for and the request timeout of
\* its client's config.  `constructed` is FALSE when the construction raised.
Module(way, constructed, poll_timeout_seconds, request_timeout_seconds) ==
    [running |-> TRUE, way |-> way, constructed |-> constructed,
     poll_timeout_seconds |-> poll_timeout_seconds,
     request_timeout_seconds |-> request_timeout_seconds,
     fetched |-> FALSE, fetch_timeout |-> 0, fetch_request_timeout |-> 0]

\* TelegramBotModule(client, poll_timeout_seconds) with
\* client = TelegramApiClient(TelegramConfig(token, request_timeout_seconds)).
direct(poll_timeout_seconds, request_timeout_seconds) ==
    Module("direct", TRUE, poll_timeout_seconds, request_timeout_seconds)

\* TelegramBotModule.from_token
from_token(poll_timeout_seconds, request_timeout_seconds) ==
    Module("from_token", TRUE, poll_timeout_seconds,
           Max(request_timeout_seconds, poll_timeout_seconds + RequestMargin))

\* Values of an environment variable: unset, or a sequence of characters;
\* digits stand for themselves.
Digits == <<"0", "1", "2", "3", "4", "5", "6", "7", "8", "9">>

digit_value(c) == (CHOOSE i \in 1..Len(Digits) : Digits[i] = c) - 1

is_number(s) == s # <<>> /\ \A i \in 1..Len(s) : \E j \in 1..Len(Digits) : Digits[j] = s[i]

RECURSIVE number_value(_)
number_value(s) ==
    IF s = <<>> THEN 0
    ELSE number_value(SubSeq(s, 1, Len(s) - 1)) * 10 + digit_value(s[Len(s)])

\* _get_env_int: Some(value), or None when it raises ValueError.
get_env_int(raw_value, default_value, minimum_value) ==
    IF IsNone(raw_value) \/ strip(Val(raw_value)) = <<>> THEN Some(default_value)
    ELSE IF ~is_number(strip(Val(raw_value))) THEN None
    ELSE IF number_value(strip(Val(raw_value))) < minimum_value THEN None
    ELSE Some(number_value(strip(Val(raw_value))))

\* _get_env_float, on whole numbers of seconds.
get_env_float(raw_value, default_value, minimum_value) ==
    IF IsNone(raw_value) \/ strip(Val(raw_value)) = <<>> THEN Some(default_value)
    ELSE IF ~is_number(strip(Val(raw_value))) THEN None
    ELSE IF number_value(strip(Val(raw_value))) < minimum_value THEN None
    ELSE Some(number_value(strip(Val(raw_value))))

TokenEnvValues == {None, Some(<<" ">>), Some(<<"1", "2">>), Some(<<"1", ":", "x", " ">>)}

has_colon(s) == \E i \in 1..Len(s) : s[i] = ":"

TimeoutEnvValues ==
    {None, Some(<<" ">>), Some(<<"x">>), Some(<<"0">>), Some(<<" ", "2">>),
     Some(<<"7">>), Some(<<"1", "2">>)}

\* TelegramBotModule.from_env with its default arguments.
from_env(token, poll_raw, request_raw) ==
    IF IsNone(token) \/ strip(Val(token)) = <<>> \/ ~has_colon(strip(Val(token)))
    THEN Module("from_env", FALSE, 0, 0)
    ELSE IF IsNone(get_env_int(poll_raw, DefaultPollTimeout, 1))
              \/ IsNone(get_env_float(request_raw, DefaultRequestTimeout, 1))
    THEN Module("from_env", FALSE, 0, 0)
    ELSE LET made == from_token(Val(get_env_int(poll_raw, DefaultPollTimeout, 1)),
                                Val(get_env_float(request_raw, DefaultRequestTimeout, 1)))
         IN  [made EXCEPT !.way = "from_env"]

\* No module built yet.
BuildInit ==
    /\ LoopNotRunning
    /\ webhook = NoWebhook
    /\ parse_case = NoParseCase
    /\ client_call = NoClientCall
    /\ built = Module("none", FALSE, 0, 0)

BuildDirect ==
    /\ built.running /\ built.way = "none"
    /\ \E poll \in PollTimeouts, request \in RequestTimeouts \cup {ConfigRequestTimeout} :
          built' = direct(poll, request)
    /\ UNCHANGED <<loop_vars, webhook, parse_case, client_call>>

BuildFromToken ==
    /\ built.running /\ built.way = "none"
    /\ \E poll \in PollTimeouts, request \in RequestTimeouts :
          built' = from_token(poll, request)
    /\ UNCHANGED <<loop_vars, webhook, parse_case, client_call>>

BuildFromEnv ==
    /\ built.running /\ built.way = "none"
    /\ \E token \in TokenEnvValues, poll_raw \in TimeoutEnvValues,
          request_raw \in TimeoutEnvValues :
          built' = from_env(token, poll_raw, request_raw)
    /\ UNCHANGED <<loop_vars, webhook, parse_case, client_call>>

\* poll_once: get_updates(timeout_seconds = poll timeout) through
\* _post_json's urlopen(timeout = the config's request timeout).
Fetch ==
    /\ built.running /\ built.constructed /\ ~built.fetched
    /\ built' = [built EXCEPT
                   !.fetched = TRUE,
                   !.fetch_timeout = built.poll_timeout_seconds,
                   !.fetch_request_timeout = built.request_timeout_seconds]
    /\ UNCHANGED <<loop_vars, webhook, parse_case, client_call>>

BuildNext == BuildDirect \/ BuildFromToken \/ BuildFromEnv \/ Fetch

BuildSpec == BuildInit /\ [][BuildNext]_vars

\* C20: every fetch of the polling module carries a request timeout
\* strictly greater than the long-poll timeout it asks the provider for,
\* however the module was built.
C20_RequestTimeoutExceedsPoll ==
    (built.running /\ built.fetched)
        => built.fetch_request_timeout > built.fetch_timeout

\* ------------------------------------------- the loop over its lifetime
\* A step in which a handler call ends: one more id in `handled`.
Dispatches == Len(handled') = Len(handled) + 1

\* A step in which poll_once issues a fetch.
IssuesFetch == pc = "poll" /\ pc' # "poll"

\* C21: over one listen_forever run the update ids passed to the handler
\* are strictly increasing in dispatch order: none is dispatched twice, also
\* not after its handler raised, and none after an update with a higher id.
C21_DispatchStep ==
    Dispatches
        => /\ last_dispatched' = Some(handled'[Len(handled')])
           /\ IsNone(last_dispatched)
                 \/ Val(last_dispatched') > Val(last_dispatched)

C21_DispatchStrictlyIncreasing == [][C21_DispatchStep]_vars

C21_Witness ==
    /\ pc = "poll"
    /\ last_fetch.offset = Some(FirstUpdateId + 1)
    /\ handler_raised # {}
    /\ handled # <<>>
    /\ last_dispatched = Some(handled[Len(handled)])

\* C22: one poll cycle is in flight at a time and dispatch is synchronous:
\* a fetch is issued only when every handler call for the previous batch
\* has returned or raised, and one handler call runs at a time.
C22_State ==
    /\ pc \in {"poll", "retry_sleep", "idle_sleep"} => pending = <<>>
    /\ pc = "handler" => pending # <<>>
    /\ (pc = "poll" /\ last_fetch.outcome = "ok")
          => handled = BatchMessageIds

C22_Step ==
    /\ IssuesFetch => pending = <<>>
    /\ Dispatches => /\ pc = "handler"
                     /\ handled' = Append(handled, Head(pending).update_id)
                     /\ pending' = Tail(pending)

C22_OneCycleInFlight == []C22_State /\ [][C22_Step]_vars

C22_Witness ==
    /\ pc = "handler"
    /\ Len(pending) = 1
    /\ Len(handled) = 1
    /\ last_fetch.outcome = "ok"

\* C23: the webhook path shares no state with the polling loop: a request
\* never changes the module's cursor or a backoff delay and never sleeps,
\* whatever the update and its outcome.
C23_Step ==
    webhook' # webhook
        => /\ next_update_id' = next_update_id
           /\ retry_sleep_seconds' = retry_sleep_seconds
           /\ retry_sleeping' = retry_sleeping
           /\ sleeps' = sleeps
           /\ pc' = pc

C23_WebhookLeavesLoopState == [][C23_Step]_vars

C23_Witness ==
    /\ Answered
    /\ webhook.outcome = "processed"
    /\ webhook.body = JsonBody(payload(WellFormed, FirstUpdateId))
    /\ next_update_id = None
    /\ pc = "off"

\* C24: a successful poll cycle that yields zero updates resets the backoff
\* delay to the floor, leaves the cursor unchanged, invokes no handler, and
\* sleeps the idle interval before the next fetch.
C24_State ==
    (last_fetch.outcome = "ok" /\ last_fetch.batch = <<>>)
        => /\ pc \in {"idle_sleep", "poll"}
           /\ retry_sleep_seconds = error_retry_sleep_seconds
           /\ next_update_id = last_fetch.offset
           /\ handled = <<>>
           /\ pending = <<>>
           /\ IsNone(retry_sleeping)

C24_Step ==
    /\ (IssuesFetch /\ last_fetch'.outcome = "ok" /\ last_fetch'.batch = <<>>)
          => /\ pc' = "idle_sleep"
             /\ retry_sleep_seconds' = error_retry_sleep_seconds
             /\ next_update_id' = next_update_id
    /\ (pc = "idle_sleep" /\ pc' # pc) => pc' = "poll"

C24_EmptyCycle == []C24_State /\ [][C24_Step]_vars

C24_Witness ==
    /\ pc = "idle_sleep"
    /\ last_fetch.outcome = "ok"
    /\ last_fetch.batch = <<>>
    /\ last_fetch.delay > error_retry_sleep_seconds
    /\ ~IsNone(next_update_id)

\* The photo list as delivered in the raw update of the parse case.
DeliveredPhotos == raw_photos(Get(parse_case.raw.v, "message").v)

\* C25: for a message with several photo records the canonical photo
\* sequence has the length and order of the delivered one, and both the CLI
\* handler and the webhook processor download its last element.
C25_PhotoOrderAndBest ==
    /\ (parse_case.running /\ parse_case.done /\ parse_case.poll.kind = "message")
          => LET photos == Val(parse_case.poll.message).photos
             IN  /\ Len(photos) = Len(DeliveredPhotos)
                 /\ \A i \in 1..Len(photos) :
                       /\ photos[i].file_id = Get(DeliveredPhotos[i].v, "file_id").v
                       /\ photos[i].width = Get(DeliveredPhotos[i].v, "width").v
    /\ (parse_case.running /\ parse_case.consumed
          /\ Len(DeliveredPhotos) > 1)
          => LET best == Get(DeliveredPhotos[Len(DeliveredPhotos)].v, "file_id").v
             IN  /\ parse_case.cli_downloads[1].file_id = best
                 /\ parse_case.hook_downloads[1].file_id = best

C25_Witness ==
    /\ parse_case.running
    /\ parse_case.consumed
    /\ Len(Val(parse_case.poll.message).photos) = 2
    /\ parse_case.cli_downloads[1].file_id = "large"
    /\ parse_case.hook_downloads[1].file_id = "large"

\* The loop of a module built with the default delays, and nobody asking
\* it to stop.
DispatchInit ==
    /\ Init
    /\ error_retry_sleep_seconds = DefaultFloor
    /\ max_retry_sleep_seconds = DefaultCeiling

DispatchNext == Arrive \/ LoopStep

DispatchSpec == DispatchInit /\ [][DispatchNext]_vars /\ WF_vars(LoopStep)

\* From here on every fetch succeeds and every retained update is well
\* formed.
FetchesSucceed ==
    /\ last_fetch.outcome = "ok"
    /\ \A i \in 1..Len(backlog) : update_outcome(backlog[i]) # "error"

\* The provider retains a message-bearing update `id` at or after the cursor.
RetainedMessage(id) ==
    /\ \E i \in 1..Len(backlog) : HasMessage(backlog[i]) /\ raw_id(backlog[i]) = id
    /\ IsNone(next_update_id) \/ id >= Val(next_update_id)

\* The update `id` has been passed to the handler in the current cycle.
PassedToHandler(id) == \E i \in 1..Len(handled) : handled[i] = id

\* C26: if from some point on every fetch succeeds and every retained
\* update is well formed, every message-bearing update the provider retains
\* at or after the cursor is eventually passed to the handler, also when its
\* batch contains updates without a message.
C26_RetainedMessagesAreDispatched ==
    <>[]FetchesSucceed
        => \A id \in FirstUpdateId..MaxUpdateId :
              RetainedMessage(id) ~> PassedToHandler(id)

C26_Witness ==
    /\ pc = "poll"
    /\ last_fetch.outcome = "ok"
    /\ last_fetch.batch = <<raw_update(FirstUpdateId, "edited"),
                            raw_update(FirstUpdateId + 1, "text"),
                            raw_update(FirstUpdateId + 2, "edited")>>
    /\ handled = <<FirstUpdateId + 1>>
    /\ next_update_id = Some(FirstUpdateId + 2)

\* Variant: the configured ceiling is passed on as it is.
from_env_ceiling_unclamped(floor, ceiling) == ceiling

\* from_env: the max_retry_sleep_seconds it passes to from_token.
from_env_ceiling(floor, ceiling) == Max(floor, ceiling)

\* The module of the loop can have been built by from_env: its ceiling is
\* what from_env makes of its floor and some configured ceiling.
BuiltByFromEnv ==
    \E ceiling \in Ceilings :
        max_retry_sleep_seconds = from_env_ceiling(error_retry_sleep_seconds, ceiling)

InDelayRange(d) ==
    error_retry_sleep_seconds <= d /\ d <= max_retry_sleep_seconds

\* C27: for a module built by from_env the effective ceiling is
\* max(configured floor, configured ceiling), so floor <= ceiling holds and
\* every backoff delay slept by listen_forever lies in [floor, ceiling].
C27_FromEnvDelaysInRange ==
    BuiltByFromEnv
        => /\ error_retry_sleep_seconds <= max_retry_sleep_seconds
           /\ InDelayRange(retry_sleep_seconds)
           /\ ~IsNone(retry_sleeping) => InDelayRange(Val(retry_sleeping))
           /\ \A i \in 1..Len(sleeps) : InDelayRange(sleeps[i])

C27_Witness ==
    /\ error_retry_sleep_seconds = MaxFloor
    /\ max_retry_sleep_seconds = from_env_ceiling(MaxFloor, 1)
    /\ pc = "retry_sleep"
    /\ Len(sleeps) = 2
    /\ retry_sleeping = Some(MaxFloor)

\* No webhook secret is configured: the variable is unset or blank.
NoSecretConfigured ==
    IsNone(webhook.secret_raw) \/ strip(Val(webhook.secret_raw)) = <<>>

\* C28: when no webhook secret is configured (unset or blank) the secret
\* header is not checked: the request is parsed and processed as the same
\* request would be with any other header value or none.
C28_NoSecretNoHeaderCheck ==
    (Answered /\ NoSecretConfigured)
        => /\ webhook.outcome # "forbidden"
           /\ webhook.body_read
           /\ \A header \in HeaderValues :
                 webhook.outcome =
                    webhook_outcome(None, header, webhook.body,
                                    webhook_path_parse(webhook.body.raw),
                                    webhook.failing)

C28_Witness ==
    /\ Answered
    /\ webhook.secret_raw = Some(<<" ">>)
    /\ webhook.header = Some(<<"w", "r", "o", "n", "g">>)
    /\ webhook.outcome = "processed"

\* The message of the request's update, when it parses to one.
RequestMessage == Val(webhook_path_parse(webhook.body.raw).message)

\* A download the request attempted has failed.
DownloadFailed ==
    \E n \in webhook.failing : n <= Len(webhook.downloads)

\* C29: the webhook answers processed=true only after every attachment it
\* attempted for the message (the last photo, then the document) was
\* downloaded and written; if a download fails no processed=true answer is
\* produced and the failure leaves the request handler.
C29_ProcessedOnlyAfterDownloads ==
    /\ (Answered /\ webhook.outcome = "processed")
          => /\ webhook.downloads = wanted_downloads(RequestMessage)
             /\ ~DownloadFailed
             /\ \A i \in 1..Len(webhook.downloads) :
                   webhook.downloads[i].path \in webhook.disk
    /\ (Answered /\ webhook.downloads # <<>> /\ DownloadFailed)
          => webhook.outcome = "download_error"

C29_Witness ==
    /\ Answered
    /\ webhook.outcome = "download_error"
    /\ Len(webhook.downloads) = 2
    /\ webhook.failing = {2}
    /\ webhook.downloads[1].path \in webhook.disk

====
